---- MODULE Spec2Model ----
(***************************************************************************)
(* Model of src/app.py: the CSV batch pipeline process_csv_file with its   *)
(* three helpers geocode_address, calculate_driving_distance and the       *)
(* emission computation.                                                   *)
(*                                                                         *)
(* Representation                                                          *)
(*  - a text (Python str) is a sequence of one-character strings;          *)
(*  - a DataFrame cell or a Python float/None is a record [k, n, t]:       *)
(*      k = "None"  Python None                                            *)
(*      k = "nan"   float NaN (pandas' missing value)                      *)
(*      k = "inf"   float infinity                                         *)
(*      k = "num"   a finite number, n in the fixed-point unit of its use  *)
(*      k = "str"   a text, t                                              *)
(*  - latitudes and longitudes are counted in 1e-5 degree, angles in       *)
(*    nano-radian, unrounded distances in millimetre, Distance_KM in       *)
(*    1e-2 km and CO2_Emissions_KG in 1e-3 kg.                             *)
(***************************************************************************)
EXTENDS Integers, Sequences, FiniteSets, TLC

VARIABLES csv, df, column_mapping, total_rows, processed_count, index,
          start_coords, end_coords, distance, pc, log, result

vars == <<csv, df, column_mapping, total_rows, processed_count, index,
          start_coords, end_coords, distance, pc, log, result>>

\* ---------------------------------------------------------------- bounds
MaxRows == 2

\* ---------------------------------------------------------------- values
None == [k |-> "None", n |-> 0, t |-> <<>>]
NaN == [k |-> "nan", n |-> 0, t |-> <<>>]
Inf == [k |-> "inf", n |-> 0, t |-> <<>>]
Num(x) == [k |-> "num", n |-> x, t |-> <<>>]
Str(s) == [k |-> "str", n |-> 0, t |-> s]

\* pandas.isna on a scalar: None and NaN are missing, a str never is
pd_isna(v) == v.k \in {"None", "nan"}

\* ------------------------------------------------------------------ text
UPPER == <<"A","B","C","D","E","F","G","H","I","J","K","L","M",
           "N","O","P","Q","R","S","T","U","V","W","X","Y","Z">>
LOWER == <<"a","b","c","d","e","f","g","h","i","j","k","l","m",
           "n","o","p","q","r","s","t","u","v","w","x","y","z">>
WHITESPACE == {" ", "\t", "\n"}

char_lower(c) ==
    IF \E i \in 1..26 : UPPER[i] = c
    THEN LOWER[CHOOSE i \in 1..26 : UPPER[i] = c]
    ELSE c

\* str.lower()
str_lower(s) == [i \in 1..Len(s) |-> char_lower(s[i])]

RECURSIVE str_lstrip(_)
str_lstrip(s) ==
    IF s # <<>> /\ Head(s) \in WHITESPACE THEN str_lstrip(Tail(s)) ELSE s

RECURSIVE str_rstrip(_)
str_rstrip(s) ==
    IF s # <<>> /\ s[Len(s)] \in WHITESPACE
    THEN str_rstrip(SubSeq(s, 1, Len(s) - 1))
    ELSE s

\* str.strip()
str_strip(s) == str_rstrip(str_lstrip(s))

\* the Python operator `sub in s` on two str
str_contains(s, sub) ==
    \E i \in 0..(Len(s) - Len(sub)) : SubSeq(s, i + 1, i + Len(sub)) = sub

\* str(x) of a DataFrame cell: str(float('nan')) is 'nan', str of a str is itself
python_str(v) == IF v.k = "nan" THEN <<"n","a","n">> ELSE v.t

\* Python round(x, ndigits) on a non-negative x counted in a unit `unit` times
\* finer than the target digit: round half to even
py_round(x, unit) ==
    LET q == x \div unit
        r == x % unit
    IN  IF 2 * r < unit THEN q
        ELSE IF 2 * r > unit THEN q + 1
        ELSE IF q % 2 = 0 THEN q ELSE q + 1

\* float(s) of a field of the JSON answer: a numeric text gives the number, the
\* texts 'nan' and 'inf' give the special floats, anything else raises ValueError
Raise == [k |-> "raise", n |-> 0, t |-> <<>>]
python_float(v) == IF v.k \in {"num", "nan", "inf"} THEN v ELSE Raise

\* ------------------------------------------------------------- constants
EMISSION_FACTOR_KG_CO2_PER_KM == 2     \* 0.2, in tenths

R == 6371                              \* Earth's radius in kilometres

ROAD_FACTOR == 13                      \* 1.3, in tenths

\* ------------------------------------------------------- geocode_address
\* What the search service does on one GET: the request fails (connection
\* error, timeout), the status is an HTTP error, the body is not JSON, the
\* first result lacks a coordinate field or carries one float() rejects, the
\* service reports no match, or it reports a match with LATITUDE/LONGITUDE.
FaultKinds == {"ConnectionError", "Timeout", "HTTPError", "BadJSON",
               "MissingField"}

Response(kind, found, has_results, lat, lng) ==
    [kind |-> kind, found |-> found, has_results |-> has_results,
     lat |-> lat, lng |-> lng]

\* the dict {'lat': ..., 'lng': ...} returned on a match
Coords(lat, lng) ==
    [k |-> "coords", n |-> 0, t |-> <<>>, lat |-> lat, lng |-> lng]

\* body of the try block: the value returned, or Raise
geocode_try(address, response) ==
    IF response.kind \in FaultKinds THEN Raise
    ELSE IF response.found > 0 /\ response.has_results
         THEN IF python_float(response.lat).k = "raise"
                 \/ python_float(response.lng).k = "raise"
              THEN Raise
              ELSE Coords(python_float(response.lat),
                          python_float(response.lng))
         ELSE None

\* variant without the except clause: the exception reaches the caller
geocode_address_uncaught(address, response) ==
    geocode_try(address, response)

\* try/except Exception around it: every exception becomes None
geocode_address(address, response) ==
    LET v == geocode_try(address, response)
    IN  IF v.k = "raise" THEN None ELSE v

\* -------------------------------------------- calculate_driving_distance
Abs(x) == IF x < 0 THEN -x ELSE x

\* float subtraction a - b with the IEEE special values
float_sub(a, b) ==
    IF a.k = "nan" \/ b.k = "nan" THEN NaN
    ELSE IF a.k = "inf" /\ b.k = "inf" THEN NaN
    ELSE IF a.k = "inf" \/ b.k = "inf" THEN Inf
    ELSE Num(a.n - b.n)

\* math.radians: 1e-5 degree to nano-radian, 1e-5 * pi / 180 = 174.5329e-9
\* (the product is taken in two parts to stay within 32 bits)
math_radians(x) ==
    IF x.k = "num"
    THEN Num((IF x.n < 0 THEN -1 ELSE 1)
             * (Abs(x.n) * 174 + (Abs(x.n) * 5329) \div 10000))
    ELSE x

\* variant that cuts the result to 2 decimals instead of rounding it
calculate_driving_distance_truncating(start, end) ==
    LET delta_lat == math_radians(float_sub(end.lat, start.lat))
        delta_lng == math_radians(float_sub(end.lng, start.lng))
        args == {math_radians(start.lat), math_radians(end.lat),
                 delta_lat, delta_lng}
        c == CASE delta_lng.n = 0 -> Abs(delta_lat.n)
        straight_distance == (R * c) \div 1000
        road_distance == (straight_distance * ROAD_FACTOR) \div 10
    IN  IF start.k # "coords" \/ end.k # "coords" THEN None
        ELSE IF \E x \in args : x.k = "inf" THEN None
        ELSE IF \E x \in args : x.k = "nan" THEN NaN
        ELSE Num(road_distance \div 10000)

\* Lines 66-89.  math.sin and math.cos raise ValueError on an infinite
\* argument, which the except clause turns into None; a NaN argument goes
\* through sin, cos, sqrt, atan2 and round(x, 2) and comes out as NaN.
\* For two points of one meridian (delta_lng = 0) the haversine term is
\* a = sin^2(delta_lat / 2), so c = 2 * atan2(sqrt(a), sqrt(1 - a)) is
\* |delta_lat|; the model's coordinates all lie on one meridian.
\* Subscripting None raises TypeError, which the except clause catches too.
calculate_driving_distance(start, end) ==
    LET lat1 == start.lat
        lng1 == start.lng
        lat2 == end.lat
        lng2 == end.lng
        lat1_rad == math_radians(lat1)
        lat2_rad == math_radians(lat2)
        delta_lat == math_radians(float_sub(lat2, lat1))
        delta_lng == math_radians(float_sub(lng2, lng1))
        args == {lat1_rad, lat2_rad, delta_lat, delta_lng}
        c == CASE delta_lng.n = 0 -> Abs(delta_lat.n)
        straight_distance == (R * c) \div 1000
        road_distance == (straight_distance * ROAD_FACTOR) \div 10
    IN  IF start.k # "coords" \/ end.k # "coords" THEN None
        ELSE IF \E x \in args : x.k = "inf" THEN None
        ELSE IF \E x \in args : x.k = "nan" THEN NaN
        ELSE Num(py_round(road_distance, 10000))

\* ---------------------------------------------------------- CO2 emissions
\* variant that multiplies by 0.3 instead of the emission factor
co2_emissions_other_factor(d) ==
    IF d.k = "nan" THEN NaN
    ELSE Num(py_round(d.n * 3, 1))

\* Line 152: round(distance * EMISSION_FACTOR_KG_CO2_PER_KM, 3).  distance is
\* in 1e-2 km and the factor in tenths, so the product is in 1e-3 kg.
co2_emissions_of(d) ==
    IF d.k = "nan" THEN NaN
    ELSE Num(py_round(d.n * EMISSION_FACTOR_KG_CO2_PER_KM, 1))

\* ------------------------------------------------------------- DataFrame
\* A DataFrame is its column labels and its rows, each row one cell per column.
\* Row positions are counted from 1 (pandas' RangeIndex counts from 0).
NoFrame == [columns |-> <<>>, data |-> <<>>]

DISTANCE_KM == <<"D","i","s","t","a","n","c","e","_","K","M">>
CO2_EMISSIONS_KG ==
    <<"C","O","2","_","E","m","i","s","s","i","o","n","s","_","K","G">>
CALCULATION_STATUS ==
    <<"C","a","l","c","u","l","a","t","i","o","n","_","S","t","a","t","u","s">>

\* the five status texts, each kept as one piece
STATUS_SUCCESS == Str(<<"Success">>)
STATUS_MISSING == Str(<<"Unable to calculate - Missing address">>)
STATUS_START_NOT_FOUND ==
    Str(<<"Unable to calculate - Start address not found">>)
STATUS_END_NOT_FOUND == Str(<<"Unable to calculate - End address not found">>)
STATUS_DISTANCE_FAILED ==
    Str(<<"Unable to calculate - Distance calculation failed">>)

has_column(d, name) == \E j \in 1..Len(d.columns) : d.columns[j] = name
column_pos(d, name) == CHOOSE j \in 1..Len(d.columns) : d.columns[j] = name

\* df[name] = v: an existing column of that label is overwritten in place,
\* otherwise a new last column is added
df_set_column(d, name, v) ==
    IF has_column(d, name)
    THEN [d EXCEPT !.data =
            [i \in 1..Len(d.data) |->
                [j \in 1..Len(d.columns) |->
                    IF d.columns[j] = name THEN v ELSE d.data[i][j]]]]
    ELSE [columns |-> Append(d.columns, name),
          data |-> [i \in 1..Len(d.data) |-> Append(d.data[i], v)]]

\* df.at[i, name] and df.at[i, name] = v
df_at(d, i, name) == d.data[i][column_pos(d, name)]
df_set_at(d, i, name, v) ==
    [d EXCEPT !.data[i][column_pos(d, name)] = v]

\* df.columns = df.columns.str.strip()
strip_columns(d) ==
    [d EXCEPT !.columns = [j \in 1..Len(d.columns) |-> str_strip(d.columns[j])]]

\* ---------------------------------------------------------- column search
T_start == <<"s","t","a","r","t">>
T_end == <<"e","n","d">>
T_address == <<"a","d","d","r","e","s","s">>
T_nan == <<"n","a","n">>

map_put(m, key, v) ==
    [x \in (DOMAIN m) \cup {key} |-> IF x = key THEN v ELSE m[x]]

\* variant that accepts a column naming either word instead of both
RECURSIVE map_columns_either_word(_, _)
map_columns_either_word(cols, mapping) ==
    IF cols = <<>> THEN mapping
    ELSE LET col == Head(cols)
             col_lower == str_lower(col)
         IN  map_columns_either_word(Tail(cols),
                IF str_contains(col_lower, T_start)
                   \/ str_contains(col_lower, T_address)
                THEN map_put(mapping, "start_address", col)
                ELSE IF str_contains(col_lower, T_end)
                        \/ str_contains(col_lower, T_address)
                     THEN map_put(mapping, "end_address", col)
                     ELSE mapping)

\* lines 103-110: the loop over df.columns; a later match replaces an earlier
RECURSIVE map_columns(_, _)
map_columns(cols, mapping) ==
    IF cols = <<>> THEN mapping
    ELSE LET col == Head(cols)
             col_lower == str_lower(col)
         IN  map_columns(Tail(cols),
                IF str_contains(col_lower, T_start)
                   /\ str_contains(col_lower, T_address)
                THEN map_put(mapping, "start_address", col)
                ELSE IF str_contains(col_lower, T_end)
                        /\ str_contains(col_lower, T_address)
                     THEN map_put(mapping, "end_address", col)
                     ELSE mapping)

\* lines 124-125: str(row[column]).strip()
start_addr(d, m, i) == str_strip(python_str(df_at(d, i, m["start_address"])))
end_addr(d, m, i) == str_strip(python_str(df_at(d, i, m["end_address"])))

\* line 127; pd.isna of a str is False
address_missing(sa, ea) ==
    \/ pd_isna(Str(sa))
    \/ pd_isna(Str(ea))
    \/ sa = T_nan
    \/ ea = T_nan

\* ------------------------------------------------------------ the inputs
\* The file as pandas.read_csv hands it over: an empty field is NaN, a field
\* of blanks stays a text of blanks, any other field is its text.
BLANKS == <<" ", " ", " ">>
ADDRESS == <<" ", "A", " ">>
OtherCells == {Str(<<"x">>)}
NumberCells == {Num(7)}

Column(name, cells) == [name |-> name, cells |-> cells]

H_plain ==
    << Column(<<"S","t","a","r","t"," ","A","d","d","r","e","s","s">>,
              {NaN, Str(BLANKS), Str(ADDRESS)}),
       Column(<<"E","n","d"," ","A","d","d","r","e","s","s">>,
              {NaN, Str(ADDRESS)}) >>
\* blanks around the labels, other letter case, a column between the two
H_spaced ==
    << Column(<<" ","s","t","a","r","t","_","a","d","d","r","e","s","s">>,
              {NaN, Str(ADDRESS)}),
       Column(<<"T","r","i","p">>, OtherCells),
       Column(<<"E","N","D"," ","A","D","D","R","E","S","S"," ">>,
              {Str(ADDRESS)}) >>
\* a file that already has a Distance_KM column
H_rerun ==
    << Column(<<"S","t","a","r","t"," ","A","d","d","r","e","s","s">>,
              {Str(ADDRESS)}),
       Column(<<"E","n","d"," ","A","d","d","r","e","s","s">>,
              {Str(BLANKS), Str(ADDRESS)}),
       Column(DISTANCE_KM, NumberCells) >>
\* no end-address column
H_no_end ==
    << Column(<<"S","t","a","r","t"," ","A","d","d","r","e","s","s">>,
              {Str(<<"A">>)}),
       Column(<<"D","e","s","t","i","n","a","t","i","o","n">>,
              {Str(<<"A">>)}) >>
\* no start-address column
H_no_start ==
    << Column(<<"O","r","i","g","i","n">>, {Str(<<"A">>)}),
       Column(<<"E","n","d"," ","A","d","d","r","e","s","s">>,
              {Str(<<"A">>)}) >>
\* the words spread over two columns
H_split ==
    << Column(<<"S","t","a","r","t">>, {Str(<<"A">>)}),
       Column(<<"E","n","d">>, {Str(<<"A">>)}),
       Column(<<"A","d","d","r","e","s","s">>, {Str(<<"A">>)}) >>

Headers == {H_plain, H_spaced, H_rerun, H_no_end, H_no_start, H_split}

RowsOf(h) ==
    LET all == UNION {h[j].cells : j \in 1..Len(h)}
    IN  {r \in [1..Len(h) -> all] : \A j \in 1..Len(h) : r[j] \in h[j].cells}

Files ==
    {[readable |-> FALSE, columns |-> <<>>, data |-> <<>>]}
    \cup UNION {
        {[readable |-> TRUE,
          columns |-> [j \in 1..Len(h) |-> h[j].name],
          data |-> d] :
            d \in UNION {[1..n -> RowsOf(h)] : n \in 0..MaxRows}}
        : h \in Headers}

\* the answers of the search service
SingaporeMeridian == Num(10380000)
ServiceLatitudes ==
    {Num(129000), Num(129350), Num(129900), NaN, Inf, Str(<<"?">>)}
Responses ==
    {Response(kd, 0, FALSE, None, None) : kd \in FaultKinds}
    \cup {Response("OK", 0, FALSE, None, None),
          Response("OK", 1, FALSE, None, None)}
    \cup {Response("OK", 1, TRUE, lat, SingaporeMeridian) :
            lat \in ServiceLatitudes}

\* ------------------------------------------------------------ history
\* log records, in order, every call of geocode_address, every call of
\* calculate_driving_distance and every time.sleep of the run
Event(op, row, arg, outcome) ==
    [op |-> op, row |-> row, arg |-> arg, outcome |-> outcome]

Outcome(address, response) ==
    LET v == geocode_try(address, response)
    IN  IF v.k = "raise" THEN "fault"
        ELSE IF v.k = "None" THEN "notfound" ELSE "found"

\* ------------------------------------------------------ process_csv_file
NoResult == [has_table |-> FALSE, table |-> NoFrame, message |-> <<>>]
MSG_COLUMNS ==
    <<"CSV must contain 'Start Address' and 'End Address' columns">>
MSG_ERROR == <<"Error processing CSV: ">>
\* variant with the two numbers exchanged
summary_exchanged(count, total) ==
    <<"Processed ", total, " out of ", count, " records successfully">>
summary(count, total) ==
    <<"Processed ", count, " out of ", total, " records successfully">>

Init ==
    /\ csv \in Files
    /\ df = NoFrame
    /\ column_mapping = <<>>
    /\ total_rows = 0
    /\ processed_count = 0
    /\ index = 0
    /\ start_coords = None
    /\ end_coords = None
    /\ distance = None
    /\ pc = "read_csv"
    /\ log = <<>>
    /\ result = NoResult

\* lines 166-167: an exception anywhere in the body ends the call
Fail ==
    /\ result' = [has_table |-> FALSE, table |-> NoFrame, message |-> MSG_ERROR]
    /\ pc' = "done"

\* `continue`: the next row; the three locals are dead until assigned again
Continue ==
    /\ index' = index + 1
    /\ start_coords' = None
    /\ end_coords' = None
    /\ distance' = None
    /\ pc' = "row"

\* lines 99-113
LocateColumns ==
    /\ pc = "read_csv"
    /\ UNCHANGED <<csv, total_rows, processed_count, index, start_coords,
                   end_coords, distance, log>>
    /\ IF ~csv.readable
       THEN Fail /\ UNCHANGED <<df, column_mapping>>
       ELSE LET d == strip_columns([columns |-> csv.columns,
                                    data |-> csv.data])
                m == map_columns(d.columns, <<>>)
            IN  /\ df' = d
                /\ column_mapping' = m
                /\ IF "start_address" \notin DOMAIN m
                      \/ "end_address" \notin DOMAIN m
                   THEN /\ result' = [has_table |-> FALSE, table |-> NoFrame,
                                      message |-> MSG_COLUMNS]
                        /\ pc' = "done"
                   ELSE /\ pc' = "init_columns"
                        /\ UNCHANGED result

\* lines 115-121
InitializeColumns ==
    /\ pc = "init_columns"
    /\ df' = df_set_column(
                df_set_column(
                    df_set_column(df, DISTANCE_KM, None),
                    CO2_EMISSIONS_KG, None),
                CALCULATION_STATUS, None)
    /\ total_rows' = Len(df.data)
    /\ processed_count' = 0
    /\ index' = 1
    /\ pc' = "row"
    /\ UNCHANGED <<csv, column_mapping, start_coords, end_coords, distance,
                   log, result>>

\* lines 123-129
CheckAddresses ==
    /\ pc = "row"
    /\ index <= total_rows
    /\ UNCHANGED <<csv, column_mapping, total_rows, processed_count, log,
                   result>>
    /\ IF address_missing(start_addr(df, column_mapping, index),
                          end_addr(df, column_mapping, index))
       THEN /\ df' = df_set_at(df, index, CALCULATION_STATUS, STATUS_MISSING)
            /\ Continue
       ELSE /\ pc' = "geocode_start"
            /\ UNCHANGED <<df, index, start_coords, end_coords, distance>>

\* variant of GeocodeStart without the `continue` of line 135
GeocodeStart_without_continue ==
    /\ pc = "geocode_start"
    /\ UNCHANGED <<csv, column_mapping, total_rows, processed_count>>
    /\ \E response \in Responses :
        LET address == start_addr(df, column_mapping, index)
            v == geocode_address(address, response)
            call == Event("geocode", index, "start", Outcome(address, response))
        IN  /\ df' = IF v.k = "None"
                     THEN df_set_at(df, index, CALCULATION_STATUS,
                                    STATUS_START_NOT_FOUND)
                     ELSE df
            /\ start_coords' = v
            /\ log' = log \o <<call, Event("sleep", index, "", "")>>
            /\ pc' = "geocode_end"
            /\ UNCHANGED <<index, end_coords, distance, result>>

\* lines 131-138
GeocodeStart ==
    /\ pc = "geocode_start"
    /\ UNCHANGED <<csv, column_mapping, total_rows, processed_count>>
    /\ \E response \in Responses :
        LET address == start_addr(df, column_mapping, index)
            v == geocode_address(address, response)
            call == Event("geocode", index, "start", Outcome(address, response))
        IN  IF v.k = "raise"
            THEN /\ Fail
                 /\ log' = Append(log, call)
                 /\ UNCHANGED <<df, index, start_coords, end_coords, distance>>
            ELSE IF v.k = "None"
            THEN /\ df' = df_set_at(df, index, CALCULATION_STATUS,
                                    STATUS_START_NOT_FOUND)
                 /\ log' = Append(log, call)
                 /\ Continue
                 /\ UNCHANGED result
            ELSE /\ start_coords' = v
                 /\ log' = log \o <<call, Event("sleep", index, "", "")>>
                 /\ pc' = "geocode_end"
                 /\ UNCHANGED <<df, index, end_coords, distance, result>>

\* lines 140-143
GeocodeEnd ==
    /\ pc = "geocode_end"
    /\ UNCHANGED <<csv, column_mapping, total_rows, processed_count>>
    /\ \E response \in Responses :
        LET address == end_addr(df, column_mapping, index)
            v == geocode_address(address, response)
            call == Event("geocode", index, "end", Outcome(address, response))
        IN  IF v.k = "raise"
            THEN /\ Fail
                 /\ log' = Append(log, call)
                 /\ UNCHANGED <<df, index, start_coords, end_coords, distance>>
            ELSE IF v.k = "None"
            THEN /\ df' = df_set_at(df, index, CALCULATION_STATUS,
                                    STATUS_END_NOT_FOUND)
                 /\ log' = Append(log, call)
                 /\ Continue
                 /\ UNCHANGED result
            ELSE /\ end_coords' = v
                 /\ log' = Append(log, call)
                 /\ pc' = "distance"
                 /\ UNCHANGED <<df, index, start_coords, distance, result>>

\* lines 145-149
CalculateDistance ==
    /\ pc = "distance"
    /\ UNCHANGED <<csv, column_mapping, total_rows, processed_count, result>>
    /\ LET v == calculate_driving_distance(start_coords, end_coords)
           call == Event("estimate", index, "",
                         IF v.k = "None" THEN "fault" ELSE "found")
       IN  /\ log' = Append(log, call)
           /\ IF v.k = "None"
              THEN /\ df' = df_set_at(df, index, CALCULATION_STATUS,
                                      STATUS_DISTANCE_FAILED)
                   /\ Continue
              ELSE /\ distance' = v
                   /\ pc' = "store"
                   /\ UNCHANGED <<df, index, start_coords, end_coords>>

\* lines 151-162
StoreResult ==
    /\ pc = "store"
    /\ LET co2_emissions == co2_emissions_of(distance)
       IN  df' = df_set_at(
                    df_set_at(
                        df_set_at(df, index, DISTANCE_KM, distance),
                        index, CO2_EMISSIONS_KG, co2_emissions),
                    index, CALCULATION_STATUS, STATUS_SUCCESS)
    /\ processed_count' = processed_count + 1
    /\ log' = Append(log, Event("sleep", index, "", ""))
    /\ Continue
    /\ UNCHANGED <<csv, column_mapping, total_rows, result>>

\* line 164
Return ==
    /\ pc = "row"
    /\ index > total_rows
    /\ result' = [has_table |-> TRUE, table |-> df,
                  message |-> summary(processed_count, total_rows)]
    /\ pc' = "done"
    /\ UNCHANGED <<csv, df, column_mapping, total_rows, processed_count,
                   index, start_coords, end_coords, distance, log>>

Next ==
    \/ LocateColumns
    \/ InitializeColumns
    \/ CheckAddresses
    \/ GeocodeStart
    \/ GeocodeEnd
    \/ CalculateDistance
    \/ StoreResult
    \/ Return

Spec == Init /\ [][Next]_vars

\* ------------------------------------- the distance estimator on its own
\* calculate_driving_distance applied to every pair of a grid of coordinates
\* on the meridian 103.8 E: latitudes 1.29000, 1.29001, 1.29003, 1.29004,
\* 1.29350 and 1.29900, NaN and infinity.
GridLatitudes == {Num(129000), Num(129001), Num(129003), Num(129004),
                  Num(129350), Num(129900), NaN, Inf}
GridCoordinates == {Coords(lat, SingaporeMeridian) : lat \in GridLatitudes}

InitDistance ==
    /\ csv = [readable |-> FALSE, columns |-> <<>>, data |-> <<>>]
    /\ df = NoFrame
    /\ column_mapping = <<>>
    /\ total_rows = 0
    /\ processed_count = 0
    /\ index = 0
    /\ start_coords \in GridCoordinates
    /\ end_coords \in GridCoordinates
    /\ distance = None
    /\ pc = "estimate"
    /\ log = <<>>
    /\ result = NoResult

Estimate ==
    /\ pc = "estimate"
    /\ distance' = calculate_driving_distance(start_coords, end_coords)
    /\ pc' = "estimated"
    /\ UNCHANGED <<csv, df, column_mapping, total_rows, processed_count,
                   index, start_coords, end_coords, log, result>>

NextDistance == Estimate

SpecDistance == InitDistance /\ [][NextDistance]_vars

\* ======================================================== the properties
\* Shorthands over the state.
Located ==
    /\ "start_address" \in DOMAIN column_mapping
    /\ "end_address" \in DOMAIN column_mapping
InLoop == pc \notin {"read_csv", "init_columns", "estimate", "estimated"}
         /\ Located
Returned == pc = "done" /\ result.has_table
RowSet(d) == 1..Len(d.data)
StatusAt(d, i) == df_at(d, i, CALCULATION_STATUS)
DistanceAt(d, i) == df_at(d, i, DISTANCE_KM)
EmissionAt(d, i) == df_at(d, i, CO2_EMISSIONS_KG)
\* a row is finished once the loop has moved past it
Finished(i) == i < index
CallsOf(i) == SelectSeq(log, LAMBDA e : e.row = i /\ e.op # "sleep")
GeocodesOf(i) == SelectSeq(log, LAMBDA e : e.row = i /\ e.op = "geocode")
\* blank or absent after trimming: an empty cell, or a text of blanks only
Blank(cell) == cell.k = "nan" \/ (cell.k = "str" /\ str_strip(cell.t) = <<>>)
StartCell(i) == df_at(df, i, column_mapping["start_address"])
EndCell(i) == df_at(df, i, column_mapping["end_address"])
NameHas(name, word) == str_contains(str_lower(name), word)
HasStartColumn ==
    \E j \in 1..Len(csv.columns) :
        NameHas(csv.columns[j], T_start) /\ NameHas(csv.columns[j], T_address)
HasEndColumn ==
    \E j \in 1..Len(csv.columns) :
        NameHas(csv.columns[j], T_end) /\ NameHas(csv.columns[j], T_address)

\* C1: in the returned table every record has Calculation_Status 'Success'
\* exactly when Distance_KM and CO2_Emissions_KG are both non-null, and every
\* record of another status has both null.
C1_SuccessIffBothPresent ==
    Returned =>
        \A i \in RowSet(result.table) :
            LET st == StatusAt(result.table, i)
                present == /\ ~pd_isna(DistanceAt(result.table, i))
                           /\ ~pd_isna(EmissionAt(result.table, i))
                absent == /\ pd_isna(DistanceAt(result.table, i))
                          /\ pd_isna(EmissionAt(result.table, i))
            IN  /\ (st = STATUS_SUCCESS) <=> present
                /\ (st # STATUS_SUCCESS) => absent

\* C2: a record whose start or end address is blank or absent after trimming
\* gets the missing-address status, no geocoder call is made for it, and its
\* distance and emission stay absent.
C2_BlankAddressIsMissing ==
    InLoop =>
        \A i \in RowSet(df) :
            (Blank(StartCell(i)) \/ Blank(EndCell(i))) =>
                /\ GeocodesOf(i) = <<>>
                /\ Finished(i) =>
                      /\ StatusAt(df, i) = STATUS_MISSING
                      /\ DistanceAt(df, i) = None
                      /\ EmissionAt(df, i) = None

\* C3: when the header has no column naming both 'start' and 'address', or
\* none naming both 'end' and 'address', the call returns no table and the
\* column error message, without processing a record or calling the geocoder.
C3_MissingColumnAborts ==
    (csv.readable /\ ~(HasStartColumn /\ HasEndColumn)) =>
        /\ pc \in {"read_csv", "done"}
        /\ log = <<>>
        /\ index = 0
        /\ processed_count = 0
        /\ ~has_column(df, CALCULATION_STATUS)
        /\ pc = "done" =>
              /\ ~result.has_table
              /\ result.table = NoFrame
              /\ result.message = MSG_COLUMNS
C3_Witness ==
    /\ pc = "done"
    /\ csv.readable
    /\ HasStartColumn
    /\ ~HasEndColumn
    /\ Len(csv.data) = MaxRows
    /\ ~result.has_table

\* C4: once the columns are located, a failed geocoder call or a failed
\* distance estimate gives its record the matching failure status, every
\* record still gets a status, and the call returns the table.
FailureStatus(e) ==
    IF e.op = "estimate" THEN STATUS_DISTANCE_FAILED
    ELSE IF e.arg = "start" THEN STATUS_START_NOT_FOUND
    ELSE STATUS_END_NOT_FOUND
C4_RecordFaultNeverAborts ==
    (csv.readable /\ InLoop) =>
        /\ \A n \in 1..Len(log) :
              (log[n].outcome = "fault" /\ (Finished(log[n].row) \/ pc = "done"))
                  => StatusAt(df, log[n].row) = FailureStatus(log[n])
        /\ pc = "done" =>
              /\ result.has_table
              /\ result.table = df
              /\ index = total_rows + 1
              /\ \A i \in RowSet(df) : StatusAt(df, i) # None
C4_Witness ==
    /\ Returned
    /\ Len(df.data) = 2
    /\ \E n \in 1..Len(log) :
          log[n].op = "geocode" /\ log[n].outcome = "fault" /\ log[n].row = 1
    /\ StatusAt(df, 1) \in {STATUS_START_NOT_FOUND, STATUS_END_NOT_FOUND}
    /\ StatusAt(df, 2) = STATUS_SUCCESS

\* C5: the calls made for a record are a prefix of origin lookup, destination
\* lookup, distance estimate, each step made only after the one before it
\* succeeded and none made twice; records are taken in input order; the
\* status of a finished record is the one of its first failing step, or
\* Success when no step failed.
CodeMissing(cell) == cell.k = "nan" \/ str_strip(cell.t) = T_nan
C5_FirstFailingStepDecides ==
    InLoop =>
        /\ \A a, b \in 1..Len(log) : a < b => log[a].row <= log[b].row
        /\ \A n \in 1..Len(log) : log[n].row \in 1..total_rows
                                    /\ ~Finished(log[n].row) => log[n].row = index
        /\ \A i \in RowSet(df) :
              LET calls == CallsOf(i)
                  st == StatusAt(df, i)
                  missing == CodeMissing(StartCell(i)) \/ CodeMissing(EndCell(i))
              IN  /\ Len(calls) <= 3
                  /\ Len(calls) >= 1 =>
                        /\ calls[1].op = "geocode" /\ calls[1].arg = "start"
                        /\ ~missing
                  /\ Len(calls) >= 2 =>
                        /\ calls[2].op = "geocode" /\ calls[2].arg = "end"
                        /\ calls[1].outcome = "found"
                  /\ Len(calls) = 3 =>
                        /\ calls[3].op = "estimate"
                        /\ calls[2].outcome = "found"
                  /\ ~Finished(i) => st = None
                  /\ Finished(i) =>
                        /\ st \in {STATUS_SUCCESS, STATUS_MISSING,
                                    STATUS_START_NOT_FOUND, STATUS_END_NOT_FOUND,
                                    STATUS_DISTANCE_FAILED}
                        /\ (st = STATUS_MISSING) <=> missing
                        /\ (st = STATUS_MISSING) <=> (Len(calls) = 0)
                        /\ (st = STATUS_START_NOT_FOUND) <=>
                              (Len(calls) = 1 /\ calls[1].outcome # "found")
                        /\ (st = STATUS_END_NOT_FOUND) <=>
                              (Len(calls) = 2 /\ calls[2].outcome # "found")
                        /\ (st = STATUS_DISTANCE_FAILED) <=>
                              (Len(calls) = 3 /\ calls[3].outcome = "fault")
                        /\ (st = STATUS_SUCCESS) <=>
                              (Len(calls) = 3 /\ calls[3].outcome = "found")
C5_Witness ==
    /\ Returned
    /\ Len(df.data) = 2
    /\ StatusAt(df, 1) = STATUS_END_NOT_FOUND
    /\ StatusAt(df, 2) = STATUS_DISTANCE_FAILED
    /\ Len(CallsOf(1)) = 2
    /\ Len(CallsOf(2)) = 3

\* C6: the running counter equals the number of records marked Success so
\* far, and the summary returned with the table reads "Processed X out of Y
\* records successfully" with X the number of Success records of that table
\* and Y the number of records of the input.
SuccessRows(d) == {i \in RowSet(d) : StatusAt(d, i) = STATUS_SUCCESS}
C7_InputPlusThreeColumns ==
    Returned =>
        /\ result.table.columns =
              csv.columns \o <<DISTANCE_KM, CO2_EMISSIONS_KG, CALCULATION_STATUS>>
        /\ Len(result.table.data) = Len(csv.data)
        /\ \A i \in 1..Len(csv.data) :
              /\ Len(result.table.data[i]) = Len(csv.columns) + 3
              /\ \A j \in 1..Len(csv.columns) :
                    result.table.data[i][j] = csv.data[i][j]

\* C8: between any geocoder call and the next geocoder call of the run the
\* pipeline sleeps at least once.
C8_PauseBetweenGeocoderCalls ==
    \A a, b \in 1..Len(log) :
        (a < b /\ log[a].op = "geocode" /\ log[b].op = "geocode") =>
            \E c \in (a + 1)..(b - 1) : log[c].op = "sleep"

\* C9: for every Success record the stored emission is the stored distance
\* times 0.2 rounded to 3 decimals (a NaN distance gives a NaN emission), so
\* distance 0.00 gives emission 0.000 and of two Success records the one with
\* the larger distance never has the smaller emission.
\* The distance is in 1e-2 km, the emission in 1e-3 kg; both are compared in
\* 1e-4 kg, where rounding to 3 decimals allows a difference of at most 5.
C9_EmissionFromDistance ==
    InLoop =>
        \A i \in SuccessRows(df) :
            LET d == DistanceAt(df, i)
                e == EmissionAt(df, i)
            IN  /\ d.k \in {"num", "nan"}
                /\ d.k = "nan" => e.k = "nan"
                /\ d.k = "num" =>
                      /\ e.k = "num"
                      /\ Abs(e.n * 10 - d.n * 20) <= 5
                      /\ d.n = 0 => e.n = 0
                      /\ \A j \in SuccessRows(df) :
                            (DistanceAt(df, j).k = "num"
                             /\ DistanceAt(df, j).n >= d.n)
                                => EmissionAt(df, j).n >= e.n
C9_Witness ==
    /\ Returned
    /\ SuccessRows(df) = {1, 2}
    /\ DistanceAt(df, 1) = Num(0)
    /\ EmissionAt(df, 1) = Num(0)
    /\ DistanceAt(df, 2) = Num(130)
    /\ EmissionAt(df, 2) = Num(260)

\* C10 as stated: the estimate is never negative and is zero only when the
\* origin equals the destination.
Finite(cs) == cs.lat.k = "num" /\ cs.lng.k = "num"
C10_ZeroOnlyWhenEqual ==
    (pc = "estimated" /\ distance.k = "num") =>
        /\ distance.n >= 0
        /\ distance.n = 0 => start_coords = end_coords

\* C10 amended: for finite coordinates the estimate is a number, never
\* negative, zero when the origin equals the destination, zero too for
\* distinct points whose road distance (1.3 times the great-circle distance)
\* is under 0.005 km, and positive once that road distance exceeds 0.005 km.
\* On a meridian 1e-5 degree of latitude is 6371 km * pi / 180 * 1e-5 * 1.3 =
\* 1445.534 mm of road, compared here in micrometres.
C10_ZeroBelowHalfCentiKm ==
    (pc = "estimated" /\ Finite(start_coords) /\ Finite(end_coords)
     /\ start_coords.lng = end_coords.lng) =>
        LET gap == Abs(end_coords.lat.n - start_coords.lat.n)
        IN  /\ distance.k = "num"
            /\ distance.n >= 0
            /\ start_coords = end_coords => distance.n = 0
            /\ gap * 1445534 > 5000000 => distance.n > 0
            /\ gap * 1445534 < 5000000 => distance.n = 0
C10_Witness ==
    /\ pc = "estimated"
    /\ Finite(start_coords)
    /\ Finite(end_coords)
    /\ start_coords # end_coords
    /\ distance = Num(0)

====
